---- MODULE Spec2Model ----
(***************************************************************************)
(* The resumable, bounded-concurrency migration engine of src/new.py:      *)
(* main() with its task list and asyncio.gather, process_song_worker under *)
(* the semaphore, the two request functions with their retry ladders, the  *)
(* global quota_exceeded flag and the progress file written by             *)
(* save_progress.                                                          *)
(*                                                                         *)
(* asyncio runs one coroutine at a time and switches only at an await, so  *)
(* every action below is the code between two suspension points: an HTTP   *)
(* request in flight, a backoff sleep, a wait for the semaphore, and       *)
(* gather's wait for all tasks.  The operating-system steps of             *)
(* save_progress (open with truncation, write, close) are separate actions *)
(* because the process can be killed between them.                         *)
(***************************************************************************)
EXTENDS Integers, Sequences, FiniteSets, TLC

VARIABLES
    run,                \* the number of the current run of main()
    nsongs,             \* len(spotify_songs): the same list in every run
    observe,            \* history: what is recorded of the responses of each call
    saves,              \* history: how often this run opened the file to write
    pcMain,             \* where main() stands
    file,               \* the contents of PROGRESS_FILE on disk
    processed_indices,  \* main's processed_indices (set of int)
    song_data,          \* main's song_data: str(index) -> outcome
    songs_to_process,   \* main's songs_to_process (sequence of indices)
    tasks,              \* main's tasks (sequence of indices, one coroutine each)
    quota_exceeded,     \* the module-level flag
    semaphore,          \* the value of asyncio.Semaphore
    worker,             \* per index: the state of its process_song_worker
    last_run            \* history: how the previous run ended

vars == <<run, nsongs, observe, saves, pcMain, file, processed_indices, song_data,
          songs_to_process, tasks, quota_exceeded, semaphore, worker, last_run>>

-----------------------------------------------------------------------------
(* Bounds of the model *)

MaxSongs == 3
MaxRuns == 2
MaxItems == 2
(* The songs of a run whose responses are recorded (SpecCalls) *)
ObservedSongs == 2

(* CONCURRENT_REQUESTS is 10 in the source (src/new.py line 24); the model  *)
(* takes a ceiling below MaxSongs so that tasks have to wait for a slot.    *)
CONCURRENT_REQUESTS == 2

(* Program constants *)
RETRY_ATTEMPTS == 3
RETRY_DELAY == 5

(* Python's None, where a video id (a string) may stand *)
None == <<>>

Indices == 1..MaxSongs

-----------------------------------------------------------------------------
(* Helpers for Python built-ins *)

RECURSIVE Pow2(_)
Pow2(n) == IF n = 0 THEN 1 ELSE 2 * Pow2(n - 1)

(* str(i) of a positive int: its decimal digits *)
RECURSIVE Str(_)
Str(n) == IF n < 10 THEN <<n>> ELSE Str(n \div 10) \o <<n % 10>>

(* sorted(list(S)) for a set of ints *)
RECURSIVE Sorted(_)
Sorted(S) ==
    IF S = {} THEN <<>>
    ELSE LET m == CHOOSE x \in S : \A y \in S : x <= y
         IN <<m>> \o Sorted(S \ {m})

Range(s) == {s[i] : i \in 1..Len(s)}

(* dict d with d[k] = v *)
DictSet(d, k, v) ==
    [x \in DOMAIN d \cup {k} |-> IF x = k THEN v ELSE d[x]]

EmptyDict == [x \in {} |-> None]

-----------------------------------------------------------------------------
(* The progress file *)

Absent == [kind |-> "absent"]
Truncated == [kind |-> "empty"]
Partial == [kind |-> "partial"]

(* json.dump of save_progress, lines 307-315 *)
Dump(indices, data) ==
    [kind |-> "complete", processed_indices |-> Sorted(indices), songs |-> data]

(* load_progress, lines 290-300 *)
load_progress(f) ==
    IF f.kind = "absent" THEN <<{}, EmptyDict>>
    ELSE IF f.kind = "complete" THEN <<Range(f.processed_indices), f.songs>>
    ELSE <<{}, EmptyDict>>

-----------------------------------------------------------------------------
(* What one HTTP attempt can come back with *)

Statuses == {200, 201, 409, 403, 429, 500}

(* The search response's "items": each with its videoId and whether its    *)
(* title contains "live"; the videoId of the i-th item is the string of i. *)
SearchBodies ==
    UNION {{[i \in 1..n |-> [videoId |-> Str(i), live |-> l[i]]] :
               l \in [1..n -> BOOLEAN]} : n \in 0..MaxItems}

Http(s, its) == [type |-> "http", status |-> s, items |-> its]
ClientError == [type |-> "ClientError"]
OtherError == [type |-> "Exception"]

SearchResponses ==
    {Http(200, its) : its \in SearchBodies}
        \cup {Http(s, <<>>) : s \in Statuses \ {200}}
        \cup {ClientError, OtherError}

AddResponses ==
    {Http(s, <<>>) : s \in Statuses} \cup {ClientError, OtherError}

(* What an attempt makes its request function do next *)
Return(v) == [kind |-> "return", value |-> v, trip |-> FALSE, wait |-> 0]
Trip(v) == [kind |-> "return", value |-> v, trip |-> TRUE, wait |-> 0]
Sleep(t) == [kind |-> "sleep", value |-> None, trip |-> FALSE, wait |-> t]
Raise == [kind |-> "raise", value |-> None, trip |-> FALSE, wait |-> 0]

(* lines 158-163: max(items, key = 0 if "live" in title else 1); max keeps *)
(* the first of several largest items                                      *)
Key(item) == IF item.live THEN 0 ELSE 1

(* A max that keeps the last of several largest items *)
RECURSIVE MaxFrom_KeepLast(_, _, _)
MaxFrom_KeepLast(items, i, best) ==
    IF i > Len(items) THEN best
    ELSE MaxFrom_KeepLast(items, i + 1,
                          IF Key(items[i]) >= Key(best) THEN items[i] ELSE best)

RECURSIVE MaxFrom(_, _, _)
MaxFrom(items, i, best) ==
    IF i > Len(items) THEN best
    ELSE MaxFrom(items, i + 1,
                 IF Key(items[i]) > Key(best) THEN items[i] ELSE best)

best_item(items) == MaxFrom(items, 2, items[1])

(* async_search_youtube taking the last attempt for a failed one whatever  *)
(* its status: the test of line 166 before the test of line 152            *)
SearchAttempt_LastFails(resp, attempt) ==
    IF resp.type = "Exception" THEN Raise
    ELSE IF resp.type = "ClientError"
    THEN IF attempt < RETRY_ATTEMPTS - 1 THEN Sleep(RETRY_DELAY)
         ELSE Return(None)
    ELSE IF attempt = RETRY_ATTEMPTS - 1 THEN Trip(None)
    ELSE IF resp.status = 200
    THEN IF resp.items = <<>> THEN Return(None)
         ELSE Return(best_item(resp.items).videoId)
    ELSE IF resp.status \in {403, 429} THEN Sleep(RETRY_DELAY * Pow2(attempt))
    ELSE Return(None)

(* async_search_youtube sleeping RETRY_DELAY * 2**attempt after a network  *)
(* error as it does after a rate limit                                     *)
SearchAttempt_NetBackoff(resp, attempt) ==
    IF resp.type = "Exception" THEN Raise
    ELSE IF resp.type = "ClientError"
    THEN IF attempt < RETRY_ATTEMPTS - 1 THEN Sleep(RETRY_DELAY * Pow2(attempt))
         ELSE Return(None)
    ELSE IF resp.status = 200
    THEN IF resp.items = <<>> THEN Return(None)
         ELSE Return(best_item(resp.items).videoId)
    ELSE IF resp.status \in {403, 429}
    THEN IF attempt = RETRY_ATTEMPTS - 1 THEN Trip(None)
         ELSE Sleep(RETRY_DELAY * Pow2(attempt))
    ELSE Return(None)

(* async_search_youtube, lines 149-186: the body of the loop for one       *)
(* attempt, given what the request came back with                          *)
SearchAttempt(resp, attempt) ==
    IF resp.type = "Exception" THEN Raise
    ELSE IF resp.type = "ClientError"
    THEN IF attempt < RETRY_ATTEMPTS - 1 THEN Sleep(RETRY_DELAY)
         ELSE Return(None)
    ELSE IF resp.status = 200
    THEN IF resp.items = <<>> THEN Return(None)
         ELSE Return(best_item(resp.items).videoId)
    ELSE IF resp.status \in {403, 429}
    THEN IF attempt = RETRY_ATTEMPTS - 1 THEN Trip(None)
         ELSE Sleep(RETRY_DELAY * Pow2(attempt))
    ELSE Return(None)

(* async_add_to_playlist with the rate-limit branch tripping the flag on   *)
(* every attempt, not only the last                                        *)
AddAttempt_TripEarly(resp, attempt) ==
    IF resp.type = "Exception" THEN Raise
    ELSE IF resp.type = "ClientError"
    THEN IF attempt < RETRY_ATTEMPTS - 1 THEN Sleep(RETRY_DELAY)
         ELSE Return(FALSE)
    ELSE IF resp.status \in {200, 409} THEN Return(TRUE)
    ELSE IF resp.status \in {403, 429} THEN Trip(FALSE)
    ELSE Return(FALSE)

(* async_add_to_playlist without the branch of line 215 *)
AddAttempt_NoConflict(resp, attempt) ==
    IF resp.type = "Exception" THEN Raise
    ELSE IF resp.type = "ClientError"
    THEN IF attempt < RETRY_ATTEMPTS - 1 THEN Sleep(RETRY_DELAY)
         ELSE Return(FALSE)
    ELSE IF resp.status = 200 THEN Return(TRUE)
    ELSE IF resp.status \in {403, 429}
    THEN IF attempt = RETRY_ATTEMPTS - 1 THEN Trip(FALSE)
         ELSE Sleep(RETRY_DELAY * Pow2(attempt))
    ELSE Return(FALSE)

(* async_add_to_playlist, lines 208-239, likewise *)
AddAttempt(resp, attempt) ==
    IF resp.type = "Exception" THEN Raise
    ELSE IF resp.type = "ClientError"
    THEN IF attempt < RETRY_ATTEMPTS - 1 THEN Sleep(RETRY_DELAY)
         ELSE Return(FALSE)
    ELSE IF resp.status = 200 THEN Return(TRUE)
    ELSE IF resp.status = 409 THEN Return(TRUE)
    ELSE IF resp.status \in {403, 429}
    THEN IF attempt = RETRY_ATTEMPTS - 1 THEN Trip(FALSE)
         ELSE Sleep(RETRY_DELAY * Pow2(attempt))
    ELSE Return(FALSE)

-----------------------------------------------------------------------------
(* process_song_worker *)

(* No coroutine for this index in this run *)
Idle ==
    [pc |-> "idle", call |-> "none", attempt |-> 0, wait |-> 0,
     video_id |-> None, status |-> "none", entered |-> "none", calls |-> 0,
     trace |-> <<>>, ladder |-> FALSE, items |-> None]

(* The coroutine exists and has not passed "async with semaphore" *)
Created == [Idle EXCEPT !.pc = "waiting"]

(* The worker returns song updated with status and video_id *)
Done(wk, st, vid) ==
    [wk EXCEPT !.pc = "done", !.call = "none", !.attempt = 0, !.wait = 0,
               !.status = st, !.video_id = vid]

Raised(wk) ==
    [wk EXCEPT !.pc = "raised", !.call = "none", !.attempt = 0, !.wait = 0,
               !.video_id = None]

(* The first attempt of a request function goes out *)
Request(wk, c, vid) ==
    [wk EXCEPT !.pc = "http", !.call = c, !.attempt = 0, !.wait = 0,
               !.video_id = vid, !.calls = @ + 1]

(* The worker without the song.update of line 276 *)
AfterAdd_Unclassified(wk, ok, q) ==
    IF ok THEN Done(wk, "added", wk.video_id)
    ELSE IF q THEN Done(wk, "quota_exceeded", wk.video_id)
    ELSE Done(wk, "none", wk.video_id)

(* lines 267-282, after async_add_to_playlist returned ok; q is the flag *)
AfterAdd(wk, ok, q) ==
    IF ok THEN Done(wk, "added", wk.video_id)
    ELSE IF q THEN Done(wk, "quota_exceeded", wk.video_id)
    ELSE Done(wk, "failed_to_add", wk.video_id)

(* The worker calling async_add_to_playlist whatever the search returned:  *)
(* without the test of line 267                                            *)
AfterSearch_AlwaysAdd(wk, video_id, q) ==
    IF q THEN Done(wk, "quota_exceeded", None)
    ELSE Request(wk, "add", video_id)

(* lines 263-282, after async_search_youtube returned video_id; the call   *)
(* of async_add_to_playlist starts with its check of the flag, line 195    *)
AfterSearch(wk, video_id, q) ==
    IF q THEN Done(wk, "quota_exceeded", None)
    ELSE IF video_id # None
    THEN IF q THEN AfterAdd([wk EXCEPT !.video_id = video_id], FALSE, q)
         ELSE Request(wk, "add", video_id)
    ELSE IF q THEN Done(wk, "quota_exceeded", None)
    ELSE Done(wk, "not_found", None)

(* Enter without the check of the flag of line 253 *)
Enter_NoCheck(wk, q) ==
    Request([wk EXCEPT !.entered = IF q THEN "tripped" ELSE "clear"],
            "search", None)

(* lines 252-261, once the semaphore is acquired; the call of              *)
(* async_search_youtube starts with its check of the flag, line 142        *)
Enter(wk, q) ==
    IF q THEN Done([wk EXCEPT !.entered = "tripped"], "quota_exceeded", None)
    ELSE IF q THEN AfterSearch([wk EXCEPT !.entered = "clear"], None, q)
    ELSE Request([wk EXCEPT !.entered = "clear"], "search", None)

(* A semaphore that never blocks *)
locked_Never(sem) == FALSE

(* asyncio.Semaphore.locked() *)
locked(sem) == sem = 0

(* The worker is inside "async with semaphore" *)
Holds(wk) == wk.pc \in {"http", "sleep"}

(* The value of the semaphore after a worker's step *)
Released(sem, before, after) ==
    IF Holds(before) /\ ~Holds(after) THEN sem + 1 ELSE sem

(* asyncio.gather starts the tasks in order: each runs to its first        *)
(* suspension, the request of its search or the wait for the semaphore     *)
RECURSIVE StartTasks(_, _, _, _)
StartTasks(ws, sem, ts, q) ==
    IF ts = <<>> THEN [worker |-> ws, semaphore |-> sem]
    ELSE LET i == Head(ts)
         IN IF locked(sem) THEN StartTasks(ws, sem, Tail(ts), q)
            ELSE LET wk == Enter(ws[i], q)
                 IN StartTasks([ws EXCEPT ![i] = wk],
                               IF Holds(wk) THEN sem - 1 ELSE sem, Tail(ts), q)

(* The waiters of the semaphore, in the order they began to wait *)
Waiters == SelectSeq(tasks, LAMBDA i : worker[i].pc = "waiting")

-----------------------------------------------------------------------------
(* main *)

NoWorkers == [i \in Indices |-> Idle]

(* The loop of lines 341-345 without the test of line 342 *)
SongsFrom_NoSkip(i, n, processed) == [k \in 1..(n - i + 1) |-> i + k - 1]

(* lines 341-345: the indices of enumerate(spotify_songs, 1) from i on     *)
(* that are not in processed                                               *)
RECURSIVE SongsFrom(_, _, _)
SongsFrom(i, n, processed) ==
    IF i > n THEN <<>>
    ELSE IF i \notin processed THEN <<i>> \o SongsFrom(i + 1, n, processed)
    ELSE SongsFrom(i + 1, n, processed)

(* The result of a finished task, as the dict the worker returns *)
Result(i) ==
    [id |-> i, status |-> worker[i].status, video_id |-> worker[i].video_id]

IsException(i) == worker[i].pc = "raised"

(* The loop of lines 371-376 without line 375 *)
RECURSIVE Merge_NoAdd(_, _, _)
Merge_NoAdd(k, indices, data) ==
    IF k > Len(tasks) THEN <<indices, data>>
    ELSE LET i == tasks[k]
         IN IF IsException(i) THEN Merge_NoAdd(k + 1, indices, data)
            ELSE Merge_NoAdd(k + 1, indices,
                             DictSet(data, Str(Result(i).id), Result(i)))

(* The loop of lines 371-376 without the test of line 372 *)
RECURSIVE Merge_KeepRaised(_, _, _)
Merge_KeepRaised(k, indices, data) ==
    IF k > Len(tasks) THEN <<indices, data>>
    ELSE LET i == tasks[k]
         IN Merge_KeepRaised(k + 1, indices \cup {Result(i).id},
                             DictSet(data, Str(Result(i).id), Result(i)))

(* The loop of lines 371-376 without line 376 *)
RECURSIVE Merge_NoEntry(_, _, _)
Merge_NoEntry(k, indices, data) ==
    IF k > Len(tasks) THEN <<indices, data>>
    ELSE LET i == tasks[k]
         IN IF IsException(i) THEN Merge_NoEntry(k + 1, indices, data)
            ELSE Merge_NoEntry(k + 1, indices \cup {Result(i).id}, data)

(* The loop of lines 371-376 leaving out the results whose status is       *)
(* quota_exceeded                                                          *)
RECURSIVE Merge_SkipQuota(_, _, _)
Merge_SkipQuota(k, indices, data) ==
    IF k > Len(tasks) THEN <<indices, data>>
    ELSE LET i == tasks[k]
         IN IF IsException(i) \/ Result(i).status = "quota_exceeded"
            THEN Merge_SkipQuota(k + 1, indices, data)
            ELSE Merge_SkipQuota(k + 1, indices \cup {Result(i).id},
                                 DictSet(data, Str(Result(i).id), Result(i)))

(* lines 371-376 over the results from position k on *)
RECURSIVE Merge(_, _, _)
Merge(k, indices, data) ==
    IF k > Len(tasks) THEN <<indices, data>>
    ELSE LET i == tasks[k]
         IN IF IsException(i) THEN Merge(k + 1, indices, data)
            ELSE Merge(k + 1, indices \cup {Result(i).id},
                       DictSet(data, Str(Result(i).id), Result(i)))

RaisedNow == {i \in Range(tasks) : IsException(i)}

Init ==
    /\ run = 1
    /\ nsongs \in 0..MaxSongs
    /\ observe = "none"
    /\ saves = 0
    /\ pcMain = "start"
    /\ file = Absent
    /\ processed_indices = {}
    /\ song_data = EmptyDict
    /\ songs_to_process = <<>>
    /\ tasks = <<>>
    /\ quota_exceeded = FALSE
    /\ semaphore = CONCURRENT_REQUESTS
    /\ worker = NoWorkers
    /\ last_run = [how |-> "none", raised |-> {}]

(* main without the reset of the flag of line 323 *)
StartRun_NoReset ==
    /\ pcMain = "start"
    /\ UNCHANGED quota_exceeded
    /\ IF nsongs = 0
       THEN /\ pcMain' = "finished"
            /\ last_run' = [how |-> "noop", raised |-> {}]
            /\ UNCHANGED <<processed_indices, song_data, songs_to_process>>
       ELSE LET loaded == load_progress(file)
                todo == SongsFrom(1, nsongs, loaded[1])
            IN /\ processed_indices' = loaded[1]
               /\ song_data' = loaded[2]
               /\ songs_to_process' = todo
               /\ IF todo = <<>>
                  THEN /\ pcMain' = "finished"
                       /\ last_run' = [how |-> "noop", raised |-> {}]
                  ELSE /\ pcMain' = "create"
                       /\ UNCHANGED last_run
    /\ semaphore' = CONCURRENT_REQUESTS
    /\ UNCHANGED <<run, nsongs, observe, saves, file, tasks, worker>>

(* lines 323-354 *)
StartRun ==
    /\ pcMain = "start"
    /\ quota_exceeded' = FALSE
    /\ IF nsongs = 0
       THEN /\ pcMain' = "finished"
            /\ last_run' = [how |-> "noop", raised |-> {}]
            /\ UNCHANGED <<processed_indices, song_data, songs_to_process>>
       ELSE LET loaded == load_progress(file)
                todo == SongsFrom(1, nsongs, loaded[1])
            IN /\ processed_indices' = loaded[1]
               /\ song_data' = loaded[2]
               /\ songs_to_process' = todo
               /\ IF todo = <<>>
                  THEN /\ pcMain' = "finished"
                       /\ last_run' = [how |-> "noop", raised |-> {}]
                  ELSE /\ pcMain' = "create"
                       /\ UNCHANGED last_run
    /\ semaphore' = CONCURRENT_REQUESTS
    /\ UNCHANGED <<run, nsongs, observe, saves, file, tasks, worker>>

(* lines 357-364: one turn of the loop over songs_to_process *)
CreateTask ==
    /\ pcMain = "create"
    /\ LET k == Len(tasks) + 1
           song == songs_to_process[k]
       IN IF quota_exceeded
          THEN /\ pcMain' = "ready"
               /\ UNCHANGED <<tasks, worker>>
          ELSE /\ tasks' = Append(tasks, song)
               /\ worker' = [worker EXCEPT ![song] = Created]
               /\ pcMain' = IF k = Len(songs_to_process) THEN "ready" ELSE "create"
    /\ UNCHANGED <<run, nsongs, observe, saves, file, processed_indices, song_data,
                   songs_to_process, quota_exceeded, semaphore, last_run>>

(* lines 367-368 and 384-385: gather starts the tasks *)
Gather ==
    /\ pcMain = "ready"
    /\ IF tasks # <<>>
       THEN LET started == StartTasks(worker, semaphore, tasks, quota_exceeded)
            IN /\ worker' = started.worker
               /\ semaphore' = started.semaphore
               /\ pcMain' = "gather"
               /\ UNCHANGED last_run
       ELSE /\ pcMain' = "finished"
            /\ last_run' = [how |-> "noop", raised |-> {}]
            /\ UNCHANGED <<worker, semaphore>>
    /\ UNCHANGED <<run, nsongs, observe, saves, file, processed_indices, song_data,
                   songs_to_process, tasks, quota_exceeded>>

(* line 252: the longest waiter gets the semaphore once it is released *)
Acquire(i) ==
    /\ pcMain = "gather"
    /\ Waiters # <<>>
    /\ i = Head(Waiters)
    /\ ~locked(semaphore)
    /\ LET wk == Enter(worker[i], quota_exceeded)
       IN /\ worker' = [worker EXCEPT ![i] = wk]
          /\ semaphore' = IF Holds(wk) THEN semaphore - 1 ELSE semaphore
    /\ UNCHANGED <<run, nsongs, observe, saves, pcMain, file, processed_indices, song_data,
                   songs_to_process, tasks, quota_exceeded, last_run>>

(* What the worker does with the outcome of an attempt *)
Step(wk, o, q) ==
    IF o.kind = "raise" THEN Raised(wk)
    ELSE IF o.kind = "sleep" THEN [wk EXCEPT !.pc = "sleep", !.wait = o.wait]
    ELSE IF wk.call = "search" THEN AfterSearch(wk, o.value, q)
    ELSE AfterAdd(wk, o.value, q)

(* History: what a response was: its status and whether it held items *)
Tag(resp) ==
    IF resp.type = "http"
    THEN [type |-> "http", status |-> resp.status, found |-> resp.items # <<>>]
    ELSE [type |-> resp.type]

Status(s) == [type |-> "http", status |-> s, found |-> FALSE]
Found == [type |-> "http", status |-> 200, found |-> TRUE]
RateLimit == {Status(403), Status(429)}

(* History: the responses of a call that were rate-limit statuses on the   *)
(* first RETRY_ATTEMPTS - 1 attempts and a 200 with items on the last      *)
IsLadder(tr) ==
    /\ Len(tr) = RETRY_ATTEMPTS
    /\ \A k \in 1..(RETRY_ATTEMPTS - 1) : tr[k] \in RateLimit
    /\ tr[RETRY_ATTEMPTS] = Found

(* History: trace holds the responses of the worker's current call, in     *)
(* order (it starts anew with the insert); ladder tells that the worker's  *)
(* search was such a ladder; both are kept when observe is "calls".  When  *)
(* observe is "items", items holds the "items" of the search's 200, as a   *)
(* sequence of one element (None: no 200 yet)                              *)
Observe(before, resp, after) ==
    IF observe = "calls"
    THEN LET full == Append(before.trace, Tag(resp))
         IN [after EXCEPT
               !.trace = IF before.call = "search" /\ after.call = "add"
                         THEN <<>> ELSE full,
               !.ladder = before.ladder \/ (before.call = "search" /\ IsLadder(full))]
    ELSE IF observe = "items"
    THEN [after EXCEPT
            !.items = IF before.call = "search" /\ resp.type = "http"
                         /\ resp.status = 200
                      THEN <<resp.items>> ELSE before.items]
    ELSE after

(* The request of a search attempt comes back *)
SearchResponse(i) ==
    /\ pcMain = "gather"
    /\ worker[i].pc = "http"
    /\ worker[i].call = "search"
    /\ \E resp \in SearchResponses :
         LET o == SearchAttempt(resp, worker[i].attempt)
             q == quota_exceeded \/ o.trip
             wk == Observe(worker[i], resp, Step(worker[i], o, q))
         IN /\ quota_exceeded' = q
            /\ worker' = [worker EXCEPT ![i] = wk]
            /\ semaphore' = Released(semaphore, worker[i], wk)
    /\ UNCHANGED <<run, nsongs, observe, saves, pcMain, file, processed_indices, song_data,
                   songs_to_process, tasks, last_run>>

(* The request of an insert attempt comes back *)
AddResponse(i) ==
    /\ pcMain = "gather"
    /\ worker[i].pc = "http"
    /\ worker[i].call = "add"
    /\ \E resp \in AddResponses :
         LET o == AddAttempt(resp, worker[i].attempt)
             q == quota_exceeded \/ o.trip
             wk == Observe(worker[i], resp, Step(worker[i], o, q))
         IN /\ quota_exceeded' = q
            /\ worker' = [worker EXCEPT ![i] = wk]
            /\ semaphore' = Released(semaphore, worker[i], wk)
    /\ UNCHANGED <<run, nsongs, observe, saves, pcMain, file, processed_indices, song_data,
                   songs_to_process, tasks, last_run>>

(* A loop that goes round without counting its attempts *)
NextAttempt_NoCount(wk) ==
    [wk EXCEPT !.pc = "http", !.wait = 0]

(* lines 176/185 and 229/238: asyncio.sleep is over, the loop goes on to   *)
(* its next attempt                                                        *)
NextAttempt(wk) ==
    [wk EXCEPT !.pc = "http", !.attempt = @ + 1, !.wait = 0]

(* worker[i].wait is the time asyncio.sleep still has to run *)
Wake(i) ==
    /\ pcMain = "gather"
    /\ worker[i].pc = "sleep"
    /\ worker[i].wait = 0
    /\ worker' = [worker EXCEPT ![i] = NextAttempt(worker[i])]
    /\ UNCHANGED <<run, nsongs, observe, saves, pcMain, file, processed_indices, song_data,
                   songs_to_process, tasks, quota_exceeded, semaphore, last_run>>

(* Time passes: RETRY_DELAY seconds, of which every sleep is a multiple.   *)
(* A sleep that is over ends before more time passes; a request may take   *)
(* any time.                                                               *)
Tick ==
    /\ pcMain = "gather"
    /\ \E i \in Indices : worker[i].pc = "sleep"
    /\ \A i \in Indices : worker[i].pc = "sleep" => worker[i].wait > 0
    /\ worker' = [i \in Indices |->
                    IF worker[i].pc = "sleep"
                    THEN [worker[i] EXCEPT !.wait = @ - RETRY_DELAY]
                    ELSE worker[i]]
    /\ UNCHANGED <<run, nsongs, observe, saves, pcMain, file, processed_indices, song_data,
                   songs_to_process, tasks, quota_exceeded, semaphore, last_run>>

(* gather returning as soon as one task has ended *)
Collect_Early ==
    /\ pcMain = "gather"
    /\ \E i \in Range(tasks) : worker[i].pc \in {"done", "raised"}
    /\ LET merged == Merge(1, processed_indices, song_data)
       IN /\ processed_indices' = merged[1]
          /\ song_data' = merged[2]
    /\ pcMain' = "save_open"
    /\ UNCHANGED <<run, nsongs, observe, saves, file, songs_to_process, tasks,
                   quota_exceeded, semaphore, worker, last_run>>

(* lines 368-376: gather returns when every task has ended *)
Collect ==
    /\ pcMain = "gather"
    /\ \A i \in Range(tasks) : worker[i].pc \in {"done", "raised"}
    /\ LET merged == Merge(1, processed_indices, song_data)
       IN /\ processed_indices' = merged[1]
          /\ song_data' = merged[2]
    /\ pcMain' = "save_open"
    /\ UNCHANGED <<run, nsongs, observe, saves, file, songs_to_process, tasks, quota_exceeded,
                   semaphore, worker, last_run>>

(* save_progress, line 306: open(PROGRESS_FILE, "w") truncates the file *)
SaveOpen ==
    /\ pcMain = "save_open"
    /\ file' = Truncated
    /\ saves' = saves + 1
    /\ pcMain' = "save_write"
    /\ UNCHANGED <<run, nsongs, observe, processed_indices, song_data, songs_to_process,
                   tasks, quota_exceeded, semaphore, worker, last_run>>

(* lines 307-315: json.dump writes the document piece by piece *)
SaveWrite ==
    /\ pcMain = "save_write"
    /\ file' = Partial
    /\ pcMain' = "save_close"
    /\ UNCHANGED <<run, nsongs, observe, saves, processed_indices, song_data, songs_to_process,
                   tasks, quota_exceeded, semaphore, worker, last_run>>

(* the end of the with block: the rest is flushed and the file closed *)
SaveClose ==
    /\ pcMain = "save_close"
    /\ file' = Dump(processed_indices, song_data)
    /\ pcMain' = "finished"
    /\ last_run' = [how |-> "saved", raised |-> RaisedNow]
    /\ UNCHANGED <<run, nsongs, observe, saves, processed_indices, song_data, songs_to_process,
                   tasks, quota_exceeded, semaphore, worker>>

(* lines 316-317: an exception in save_progress is logged, the run goes on *)
SaveError ==
    /\ pcMain \in {"save_open", "save_write", "save_close"}
    /\ pcMain' = "finished"
    /\ last_run' = [how |-> "unsaved", raised |-> RaisedNow]
    /\ UNCHANGED <<run, nsongs, observe, saves, file, processed_indices, song_data,
                   songs_to_process, tasks, quota_exceeded, semaphore, worker>>

(* The process is killed: its memory is gone, the file stays as it is *)
Kill ==
    /\ pcMain \notin {"start", "finished", "killed"}
    /\ pcMain' = "killed"
    /\ processed_indices' = {}
    /\ song_data' = EmptyDict
    /\ songs_to_process' = <<>>
    /\ tasks' = <<>>
    /\ quota_exceeded' = FALSE
    /\ semaphore' = CONCURRENT_REQUESTS
    /\ worker' = NoWorkers
    /\ last_run' = [how |-> "killed", raised |-> {}]
    /\ UNCHANGED <<run, nsongs, observe, saves, file>>

(* The program is started again on the same list and the same file *)
Restart ==
    /\ pcMain \in {"finished", "killed"}
    /\ run < MaxRuns
    /\ run' = run + 1
    /\ pcMain' = "start"
    /\ processed_indices' = {}
    /\ song_data' = EmptyDict
    /\ songs_to_process' = <<>>
    /\ tasks' = <<>>
    /\ semaphore' = CONCURRENT_REQUESTS
    /\ worker' = NoWorkers
    /\ saves' = 0
    /\ UNCHANGED <<nsongs, observe, file, quota_exceeded, last_run>>

Next ==
    \/ StartRun
    \/ CreateTask
    \/ Gather
    \/ \E i \in Indices : Acquire(i)
    \/ \E i \in Indices : SearchResponse(i)
    \/ \E i \in Indices : AddResponse(i)
    \/ \E i \in Indices : Wake(i)
    \/ Tick
    \/ Collect
    \/ SaveOpen
    \/ SaveWrite
    \/ SaveClose
    \/ SaveError
    \/ Kill
    \/ Restart

Spec == Init /\ [][Next]_vars

-----------------------------------------------------------------------------
(* One run from an absent progress file, up to the end of its tasks, with  *)
(* the responses of every call recorded in worker[i].trace                 *)

InitCalls ==
    /\ run = 1
    /\ nsongs \in 1..ObservedSongs
    /\ observe = "calls"
    /\ saves = 0
    /\ pcMain = "start"
    /\ file = Absent
    /\ processed_indices = {}
    /\ song_data = EmptyDict
    /\ songs_to_process = <<>>
    /\ tasks = <<>>
    /\ quota_exceeded = FALSE
    /\ semaphore = CONCURRENT_REQUESTS
    /\ worker = NoWorkers
    /\ last_run = [how |-> "none", raised |-> {}]

NextCalls ==
    \/ StartRun
    \/ CreateTask
    \/ Gather
    \/ \E i \in Indices : SearchResponse(i)
    \/ \E i \in Indices : AddResponse(i)
    \/ \E i \in Indices : Wake(i)
    \/ Tick

SpecCalls == InitCalls /\ [][NextCalls]_vars

(* One run of main left to itself: the process is not killed, every       *)
(* request comes back, every sleep ends and the event loop runs whatever   *)
(* is ready, so a step is taken as long as one can be                      *)
NextLive ==
    \/ StartRun
    \/ CreateTask
    \/ Gather
    \/ \E i \in Indices : Acquire(i)
    \/ \E i \in Indices : SearchResponse(i)
    \/ \E i \in Indices : AddResponse(i)
    \/ \E i \in Indices : Wake(i)
    \/ Tick
    \/ Collect
    \/ SaveOpen
    \/ SaveWrite
    \/ SaveClose
    \/ SaveError

SpecLive == Init /\ [][NextLive]_vars /\ WF_vars(NextLive)

(* The same with the "items" of each search's 200 recorded in              *)
(* worker[i].items in place of the responses                               *)
InitSearch ==
    /\ run = 1
    /\ nsongs \in 1..ObservedSongs
    /\ observe = "items"
    /\ saves = 0
    /\ pcMain = "start"
    /\ file = Absent
    /\ processed_indices = {}
    /\ song_data = EmptyDict
    /\ songs_to_process = <<>>
    /\ tasks = <<>>
    /\ quota_exceeded = FALSE
    /\ semaphore = CONCURRENT_REQUESTS
    /\ worker = NoWorkers
    /\ last_run = [how |-> "none", raised |-> {}]

SpecSearch == InitSearch /\ [][NextCalls]_vars

-----------------------------------------------------------------------------
(* The claims, C1 to C6, of Spec *)

(* A worker sends a request: the first attempt of a call or a retry *)
AttemptStarts(i) ==
    /\ worker'[i].pc = "http"
    /\ \/ worker[i].pc # "http"
       \/ worker'[i].call # worker[i].call

(* C1: no HTTP attempt, first or retry, of a search or of an insert, is    *)
(* started by any worker while the breaker is tripped.                     *)
C1_NoAttemptWhenTripped ==
    [][\A i \in Indices : AttemptStarts(i) => ~quota_exceeded]_vars

(* C2: a worker that acquires its slot after the breaker has tripped sends *)
(* no request at all and returns quota_exceeded with no video id.          *)
C2_SkipWhenTripped ==
    \A i \in Indices :
        worker[i].entered = "tripped" =>
            /\ worker[i].pc = "done"
            /\ worker[i].calls = 0
            /\ worker[i].status = "quota_exceeded"
            /\ worker[i].video_id = None

C2_Witness ==
    \E i \in Indices :
        /\ worker[i].entered = "tripped"
        /\ worker[i].pc = "done"
        /\ quota_exceeded

(* The processed set of the ledger on disk; the file is not written        *)
(* between load_progress and the end of gather                             *)
Loaded == load_progress(file)[1]

(* C3: a run dispatches workers for exactly the indices of 1..N that are   *)
(* not in the loaded processed set, each once, in ascending order; no      *)
(* worker exists for an index of the processed set.                        *)
C3_ResumeDispatch ==
    pcMain \in {"create", "ready", "gather"} =>
        LET want == Sorted((1..nsongs) \ Loaded)
        IN /\ Len(tasks) <= Len(want)
           /\ tasks = SubSeq(want, 1, Len(tasks))
           /\ pcMain \in {"ready", "gather"} => tasks = want
           /\ \A i \in Indices : worker[i].pc # "idle" <=> i \in Range(tasks)
           /\ \A i \in Loaded : worker[i] = Idle

C3_Witness ==
    /\ pcMain = "gather"
    /\ Loaded # {}
    /\ 1 \in Loaded
    /\ Len(tasks) >= 2
    /\ \E i \in Range(tasks) : worker[i].pc = "done"

(* The run is at work on songs_to_process; last_run tells how the run      *)
(* before it ended                                                         *)
Working ==
    pcMain \in {"create", "ready", "gather", "save_open", "save_write", "save_close"}

C5_LedgerAtomic ==
    pcMain = "killed" => file.kind \in {"absent", "complete"}

(* C6: at most CONCURRENT_REQUESTS workers are inside "async with          *)
(* semaphore" (searching, inserting or sleeping) at any time.              *)
C6_ConcurrencyBound ==
    /\ Cardinality({i \in Indices : Holds(worker[i])}) <= CONCURRENT_REQUESTS
    /\ semaphore = CONCURRENT_REQUESTS - Cardinality({i \in Indices : Holds(worker[i])})

C6_Witness ==
    /\ Cardinality({i \in Indices : Holds(worker[i])}) = CONCURRENT_REQUESTS
    /\ \E i \in Indices : worker[i].pc = "waiting"
    /\ \E i \in Indices : worker[i].pc = "sleep"

-----------------------------------------------------------------------------
(* The claims, C7 to C10, of SpecCalls *)

(* The worker's insert call has ended and trace holds its responses *)
InsertEnded(wk) == wk.pc = "done" /\ wk.calls = 2 /\ wk.trace # <<>>

LastOf(tr) == tr[Len(tr)]

(* C7: a search that gets a rate-limit status on its first R-1 attempts    *)
(* and a 200 with items on its R-th does not trip the breaker, and the     *)
(* worker's outcome is added when its insert then succeeds.                *)
C7_LadderSucceeds ==
    [][\A i \in Indices :
         /\ (~worker[i].ladder /\ worker'[i].ladder) =>
                /\ quota_exceeded' = quota_exceeded
                /\ ~quota_exceeded => (worker'[i].call = "add" /\ worker'[i].pc = "http")
         /\ ( /\ worker'[i].ladder
              /\ InsertEnded(worker'[i])
              /\ LastOf(worker'[i].trace) \in {Status(200), Status(409)} ) =>
                worker'[i].status = "added"]_vars

C7_Witness ==
    \E i \in Indices :
        /\ worker[i].ladder
        /\ InsertEnded(worker[i])
        /\ LastOf(worker[i].trace) = Status(200)
        /\ worker[i].status = "added"
        /\ ~quota_exceeded

(* A worker receives a rate-limit status on the last attempt of a call *)
FinalRateLimit(i) ==
    /\ Len(worker'[i].trace) = RETRY_ATTEMPTS
    /\ Len(worker[i].trace) = RETRY_ATTEMPTS - 1
    /\ LastOf(worker'[i].trace) \in RateLimit

(* C8: a search or insert call trips the breaker and returns failure       *)
(* exactly when its final, R-th, attempt receives a rate-limit status.     *)
C8_TripOnExhaustion ==
    [][/\ \A i \in Indices :
            FinalRateLimit(i) =>
                /\ quota_exceeded'
                /\ worker'[i].pc = "done"
                /\ worker'[i].status = "quota_exceeded"
                /\ worker[i].call = "search" => worker'[i].video_id = None
       /\ (~quota_exceeded /\ quota_exceeded') =>
            \E i \in Indices : FinalRateLimit(i)]_vars

C8_Witness ==
    \E i \in Indices :
        /\ worker[i].pc = "done"
        /\ Len(worker[i].trace) = RETRY_ATTEMPTS
        /\ \A k \in 1..RETRY_ATTEMPTS : worker[i].trace[k] \in RateLimit
        /\ quota_exceeded
        /\ worker[i].status = "quota_exceeded"

(* The responses of an insert call that failed for another reason than     *)
(* quota: another status, or a network error on every attempt              *)
NonQuotaFailure(tr) ==
    \/ LastOf(tr) = Status(500)
    \/ /\ Len(tr) = RETRY_ATTEMPTS
       /\ \A k \in 1..RETRY_ATTEMPTS : tr[k] = Tag(ClientError)

(* C9: the outcome follows the worker's own insert call: added when it     *)
(* succeeded or met a conflict, failed_to_add when it failed for another   *)
(* reason than quota, quota_exceeded when it used up its retries on a      *)
(* rate-limit status.                                                      *)
C9_InsertOutcome ==
    \A i \in Indices :
        InsertEnded(worker[i]) =>
            LET tr == worker[i].trace
            IN /\ LastOf(tr) \in {Status(200), Status(409)} =>
                      worker[i].status = "added"
               /\ NonQuotaFailure(tr) => worker[i].status = "failed_to_add"
               /\ (Len(tr) = RETRY_ATTEMPTS /\ LastOf(tr) \in RateLimit) =>
                      worker[i].status = "quota_exceeded"

(* C10: an insert that receives 409 returns success without another        *)
(* attempt, and the worker's outcome is added.                             *)
C10_ConflictIsAdded ==
    \A i \in Indices :
        (worker[i].calls = 2 /\ \E k \in 1..Len(worker[i].trace) :
                                    worker[i].trace[k] = Status(409)) =>
            /\ LastOf(worker[i].trace) = Status(409)
            /\ worker[i].pc = "done"
            /\ worker[i].status = "added"

C10_Witness ==
    \E i \in Indices :
        /\ InsertEnded(worker[i])
        /\ Len(worker[i].trace) = RETRY_ATTEMPTS
        /\ LastOf(worker[i].trace) = Status(409)
        /\ worker[i].status = "added"
        /\ quota_exceeded

-----------------------------------------------------------------------------
(* The claims, C11 to C20 *)

(* C11: an insert whose response has any 2xx status, not only 200, returns *)
(* success at once and the worker's outcome is added.                      *)
C11_Any2xxIsAdded ==
    \A i \in Indices :
        (worker[i].calls = 2 /\ \E k \in 1..Len(worker[i].trace) :
             /\ worker[i].trace[k].type = "http"
             /\ worker[i].trace[k].status \in 200..299) =>
            /\ LastOf(worker[i].trace).type = "http"
            /\ LastOf(worker[i].trace).status \in 200..299
            /\ worker[i].pc = "done"
            /\ worker[i].status = "added"

(* C12 as claimed: a worker that has returned made no call or two calls,   *)
(* never exactly one.                                                      *)
C12_ZeroOrTwoCalls ==
    \A i \in Indices : worker[i].pc = "done" => worker[i].calls \in {0, 2}

(* C12 as amended: a worker makes no call when the flag was set on entry,  *)
(* the search alone when it gave no video id or the flag was set by the    *)
(* time it returned, and the search then the insert otherwise; never more. *)
C12_CallsByOutcome ==
    \A i \in Indices :
        LET wk == worker[i]
        IN /\ wk.calls \in 0..2
           /\ wk.call = "search" => wk.calls = 1
           /\ wk.call = "add" => wk.calls = 2 /\ wk.video_id # None
           /\ wk.pc = "done" =>
                /\ wk.calls = 0 <=> wk.entered = "tripped"
                /\ wk.calls = 0 => wk.status = "quota_exceeded" /\ wk.video_id = None
                /\ wk.calls = 1 =>
                     wk.status \in {"not_found", "quota_exceeded"} /\ wk.video_id = None
                /\ wk.calls = 2 =>
                     /\ wk.status \in {"added", "failed_to_add", "quota_exceeded"}
                     /\ wk.video_id # None
                /\ wk.status = "not_found" => wk.calls = 1
                /\ wk.status \in {"added", "failed_to_add"} => wk.calls = 2

C12_Witness ==
    /\ \E i \in Indices :
         worker[i].pc = "done" /\ worker[i].calls = 1 /\ worker[i].status = "not_found"
    /\ \E i \in Indices :
         worker[i].pc = "done" /\ worker[i].calls = 2 /\ worker[i].status = "quota_exceeded"
    /\ \E i \in Indices : worker[i].pc = "done" /\ worker[i].calls = 0

(* main is past gather and has merged the results of its tasks *)
Merged == pcMain \in {"save_open", "save_write", "save_close"}

(* C13: a worker that raises does not abort the batch: its index is not    *)
(* added to processed_indices and has no entry in song_data, the outcomes  *)
(* of the other workers are merged and saved, and the next run has a       *)
(* worker for that index again.                                            *)
C13_FailureIsolation ==
    /\ Merged =>
         \A i \in Range(tasks) :
             IF IsException(i)
             THEN i \notin processed_indices /\ Str(i) \notin DOMAIN song_data
             ELSE /\ worker[i].pc = "done"
                  /\ i \in processed_indices
                  /\ Str(i) \in DOMAIN song_data
                  /\ song_data[Str(i)] = Result(i)
    /\ (pcMain = "finished" /\ last_run.how = "saved") =>
         /\ file = Dump(processed_indices, song_data)
         /\ \A i \in last_run.raised : i \notin Range(file.processed_indices)
    /\ (run > 1 /\ last_run.how = "saved" /\ pcMain \in {"ready", "gather"}) =>
         last_run.raised \subseteq Range(tasks)

C13_Witness ==
    /\ run > 1
    /\ last_run.how = "saved"
    /\ pcMain = "gather"
    /\ last_run.raised # {}
    /\ Loaded # {}
    /\ Range(tasks) = last_run.raised

(* The keys song_data has for a set of indices: str(i) of each *)
KeysOf(indices) == {Str(i) : i \in indices}

(* C14: from an empty ledger or a loaded one whose processed_indices are   *)
(* the keys of its songs, what a run passes to save_progress and what it   *)
(* writes again has processed_indices equal to the keys of song_data.      *)
C14_LedgerInvariant ==
    /\ KeysOf(processed_indices) = DOMAIN song_data
    /\ KeysOf(load_progress(file)[1]) = DOMAIN load_progress(file)[2]
    /\ \A k \in DOMAIN song_data : Str(song_data[k].id) = k

C14_Witness ==
    /\ run > 1
    /\ Merged
    /\ Loaded # {}
    /\ RaisedNow # {}
    /\ processed_indices # Loaded
    /\ \E k \in DOMAIN song_data : song_data[k].status = "quota_exceeded"

(* A worker of the run has not ended: it waits for the semaphore, has a   *)
(* request in flight or sleeps                                             *)
InFlight == \E i \in Indices : worker[i].pc \in {"waiting", "http", "sleep"}

(* C15: a run writes the ledger at most once, and only when every worker   *)
(* it dispatched has returned or raised; a run that dispatched no worker   *)
(* does not write.                                                         *)
C15_SingleSaveAfterBatch ==
    [][/\ file' # file =>
            /\ Merged
            /\ tasks # <<>>
            /\ ~InFlight
            /\ \A i \in Range(tasks) : worker[i].pc \in {"done", "raised"}
       /\ saves' > saves => saves = 0 /\ Merged /\ tasks # <<>> /\ ~InFlight
       /\ saves' <= 1
       /\ (pcMain' = "finished" /\ tasks' = <<>>) => saves' = 0 /\ file' = file]_vars

C15_Witness ==
    /\ run > 1
    /\ pcMain = "finished"
    /\ saves = 1
    /\ last_run.how = "saved"
    /\ RaisedNow # {}
    /\ quota_exceeded
    /\ file.kind = "complete"

OutcomeStatuses == {"added", "not_found", "failed_to_add", "quota_exceeded"}

(* C16 as claimed: every index dispatched in a run has got its one        *)
(* outcome, with one of the four statuses, when the batch is over.         *)
C16_EveryItemHasOutcome ==
    Merged =>
        \A i \in Range(tasks) :
            /\ worker[i].pc = "done"
            /\ worker[i].status \in OutcomeStatuses
            /\ Str(i) \in DOMAIN song_data

(* C16 as amended: every index dispatched in a run has one worker, which   *)
(* returns one outcome with one of the four statuses or raises and leaves  *)
(* none; an outcome is not changed afterwards in the run and is the one    *)
(* merged into song_data.                                                  *)
C16_AtMostOneOutcome ==
    [][\A i \in Indices :
         /\ Cardinality(Range(tasks')) = Len(tasks')
         /\ (worker[i].pc = "idle" /\ worker'[i].pc # "idle") =>
                i \notin Range(tasks) /\ tasks' = Append(tasks, i)
         /\ worker'[i].pc = "done" =>
                i \in Range(tasks') /\ worker'[i].status \in OutcomeStatuses
         /\ worker'[i].pc \notin {"done", "idle"} => worker'[i].status = "none"
         /\ (worker[i].pc \in {"done", "raised"} /\ run' = run /\ pcMain' # "killed") =>
                worker'[i] = worker[i]
         /\ (pcMain' \in {"save_open", "save_write", "save_close"}
                /\ i \in Range(tasks')) =>
                /\ worker'[i].pc \in {"done", "raised"}
                /\ worker'[i].pc = "done" =>
                       song_data'[Str(i)] =
                           [id |-> i, status |-> worker'[i].status,
                            video_id |-> worker'[i].video_id]
                /\ worker'[i].pc = "raised" => Str(i) \notin DOMAIN song_data']_vars

C16_Witness ==
    /\ Merged
    /\ Len(tasks) = MaxSongs
    /\ \E i \in Range(tasks) : worker[i].pc = "done" /\ worker[i].status = "added"
    /\ \E i \in Range(tasks) : worker[i].pc = "done" /\ worker[i].status = "quota_exceeded"
    /\ \E i \in Range(tasks) : worker[i].pc = "raised"

(* A worker's attempt ends with a network error *)
NetworkError(i) ==
    /\ Len(worker'[i].trace) = Len(worker[i].trace) + 1
    /\ LastOf(worker'[i].trace) = Tag(ClientError)

AllNetworkErrors(tr) ==
    tr # <<>> /\ \A k \in 1..Len(tr) : tr[k] = Tag(ClientError)

(* C17: a call whose attempts all raise a network error makes exactly      *)
(* RETRY_ATTEMPTS attempts, sleeps RETRY_DELAY after each but the last,    *)
(* and returns failure without setting the flag; the worker then returns   *)
(* not_found after a search and failed_to_add after an insert, unless the  *)
(* flag was set by a sibling.                                              *)
C17_NetworkErrorLadder ==
    [][\A i \in Indices :
         LET b == worker[i]
             a == worker'[i]
         IN /\ b.pc = "http" => Len(b.trace) = b.attempt
            /\ NetworkError(i) =>
                 /\ quota_exceeded' = quota_exceeded
                 /\ b.attempt < RETRY_ATTEMPTS - 1 =>
                      /\ a.pc = "sleep"
                      /\ a.wait = RETRY_DELAY
                      /\ a.call = b.call
                      /\ a.attempt = b.attempt
                 /\ b.attempt = RETRY_ATTEMPTS - 1 =>
                      /\ a.pc = "done"
                      /\ a.wait = 0
                      /\ a.status = IF quota_exceeded THEN "quota_exceeded"
                                    ELSE IF b.call = "search" THEN "not_found"
                                    ELSE "failed_to_add"
            /\ (a.pc = "done" /\ AllNetworkErrors(a.trace)) =>
                 Len(a.trace) = RETRY_ATTEMPTS
            /\ (b.pc = "sleep" /\ a.pc = "http") =>
                 b.wait = 0 /\ a.attempt = b.attempt + 1 /\ a.call = b.call]_vars

C17_Witness ==
    /\ ~quota_exceeded
    /\ \E i \in Indices :
         /\ worker[i].pc = "done"
         /\ worker[i].calls = 1
         /\ AllNetworkErrors(worker[i].trace)
         /\ worker[i].status = "not_found"
    /\ \E i \in Indices :
         /\ worker[i].pc = "done"
         /\ worker[i].calls = 2
         /\ AllNetworkErrors(worker[i].trace)
         /\ worker[i].status = "failed_to_add"

(* C18: the flag is False when a run begins its work, and within a run no  *)
(* step sets it back from True to False: only the reset at the start of    *)
(* main does, or the end of the process.                                   *)
C18_BreakerMonotonic ==
    [][/\ (quota_exceeded /\ ~quota_exceeded') =>
            (pcMain = "start" \/ pcMain' = "killed")
       /\ (pcMain = "start" /\ pcMain' # "start") => ~quota_exceeded'
       /\ (pcMain \notin {"start", "finished", "killed"} /\ pcMain' # "killed"
             /\ quota_exceeded) => quota_exceeded']_vars

C18_Witness ==
    /\ run > 1
    /\ pcMain = "gather"
    /\ ~quota_exceeded
    /\ \E k \in DOMAIN song_data : song_data[k].status = "quota_exceeded"
    /\ \E i \in Range(tasks) : worker[i].pc = "http"

(* The videoId of the first of items, from position k on, that is not     *)
(* live, and of the first item when there is none                          *)
RECURSIVE FirstNotLive(_, _)
FirstNotLive(items, k) ==
    IF k > Len(items) THEN items[1].videoId
    ELSE IF ~items[k].live THEN items[k].videoId
    ELSE FirstNotLive(items, k + 1)

(* C19 as claimed: of the items of a search's 200 the worker takes the    *)
(* videoId of the first whose title has no "live", of the first item when  *)
(* all have; with no items its outcome is not_found.                       *)
C19_BestMatchOrNotFound ==
    \A i \in Indices :
        LET wk == worker[i]
        IN (wk.items # None /\ wk.pc # "raised") =>
              IF wk.items[1] # <<>>
              THEN wk.video_id # None => wk.video_id = FirstNotLive(wk.items[1], 1)
              ELSE wk.pc = "done" /\ wk.video_id = None /\ wk.status = "not_found"

(* C19 as amended: the same when the flag is not set as the search         *)
(* returns; when it is set the worker returns quota_exceeded with no       *)
(* video id, whatever the items.                                           *)
C19_BestMatchUnlessTripped ==
    \A i \in Indices :
        LET wk == worker[i]
        IN (wk.items # None /\ wk.pc # "raised") =>
              \/ /\ wk.items[1] # <<>>
                 /\ wk.video_id = FirstNotLive(wk.items[1], 1)
                 /\ wk.calls = 2
              \/ /\ wk.items[1] = <<>>
                 /\ wk.pc = "done"
                 /\ wk.calls = 1
                 /\ wk.video_id = None
                 /\ wk.status = "not_found"
              \/ /\ quota_exceeded
                 /\ wk.pc = "done"
                 /\ wk.calls = 1
                 /\ wk.video_id = None
                 /\ wk.status = "quota_exceeded"

C19_Witness ==
    \E i \in Indices :
        /\ worker[i].items # None
        /\ Len(worker[i].items[1]) = MaxItems
        /\ \A k \in 1..(MaxItems - 1) : worker[i].items[1][k].live
        /\ ~worker[i].items[1][MaxItems].live
        /\ worker[i].video_id = Str(MaxItems)
        /\ worker[i].status = "added"

(* The indices the ledger on disk holds with the status quota_exceeded *)
QuotaOnDisk ==
    {i \in Indices : /\ Str(i) \in DOMAIN load_progress(file)[2]
                     /\ load_progress(file)[2][Str(i)].status = "quota_exceeded"}

(* C20: an index whose worker returned quota_exceeded, with or without a   *)
(* call, is added to processed_indices and saved with the rest; a later    *)
(* run with that ledger has no worker for it.                              *)
C20_QuotaItemsProcessed ==
    /\ Merged =>
         \A i \in Range(tasks) :
             (worker[i].pc = "done" /\ worker[i].status = "quota_exceeded") =>
                 /\ i \in processed_indices
                 /\ song_data[Str(i)].status = "quota_exceeded"
    /\ (pcMain = "finished" /\ last_run.how = "saved") =>
         \A i \in Range(tasks) :
             (worker[i].pc = "done" /\ worker[i].status = "quota_exceeded") =>
                 i \in QuotaOnDisk
    /\ QuotaOnDisk \subseteq Loaded
    /\ pcMain \in {"create", "ready", "gather"} =>
         /\ QuotaOnDisk \cap Range(tasks) = {}
         /\ \A i \in QuotaOnDisk : worker[i] = Idle

C20_Witness ==
    /\ run > 1
    /\ pcMain = "gather"
    /\ tasks # <<>>
    /\ Cardinality(QuotaOnDisk) >= 2
    /\ \A i \in Range(tasks) : worker[i].pc = "done"

-----------------------------------------------------------------------------
(* The claim C21, of SpecLive *)

(* C21: no call goes beyond RETRY_ATTEMPTS attempts, every worker of the   *)
(* run ends by returning or raising, also once the flag is set, and a run  *)
(* with at least one task gets to its one save_progress and finishes.      *)
C21_Termination ==
    /\ [](\A i \in Indices : worker[i].attempt \in 0..(RETRY_ATTEMPTS - 1))
    /\ \A i \in Indices :
         (worker[i].pc \in {"waiting", "http", "sleep"})
             ~> (worker[i].pc \in {"done", "raised"})
    /\ (tasks # <<>> /\ pcMain \in {"create", "ready", "gather"})
           ~> (Merged /\ ~InFlight)
    /\ (tasks # <<>>)
           ~> (pcMain = "finished" /\ saves <= 1
                 /\ last_run.how \in {"saved", "unsaved"})

C21_Witness ==
    /\ pcMain = "finished"
    /\ saves = 1
    /\ last_run.how = "saved"
    /\ quota_exceeded
    /\ Len(tasks) = MaxSongs
    /\ \E i \in Range(tasks) : worker[i].pc = "done" /\ worker[i].calls = 0
    /\ \E i \in Range(tasks) : worker[i].pc = "raised"

====
